---- MODULE Spec2Model ----
(***************************************************************************)
(* Repomap v0 (extensions/vscode/tools/repomap/repomap.py): the bounded,   *)
(* deterministic repository summarizer, as a state machine.                *)
(*                                                                         *)
(* A string is a sequence of one-character strings, so that globbing,      *)
(* splitting on "/", slicing and lexicographic comparison are computed as  *)
(* the code computes them.                                                 *)
(***************************************************************************)
EXTENDS Integers, Sequences, FiniteSets, TLC

\* ------------------------------------------------------------------------
\* Strings
\* ------------------------------------------------------------------------

\* The characters of the model in code-point order (Python compares str by
\* code point).
AsciiOrder ==
    <<"\n", " ", "!", "#", "*", "-", ".", "/", "?",
      "A", "B", "C", "D", "E", "F", "G", "H", "I", "J", "K", "L", "M",
      "N", "O", "P", "Q", "R", "S", "T", "U", "V", "W", "X", "Y", "Z", "_",
      "a", "b", "c", "d", "e", "f", "g", "h", "i", "j", "k", "l", "m",
      "n", "o", "p", "q", "r", "s", "t", "u", "v", "w", "x", "y", "z">>

CharCode ==
    [c \in {AsciiOrder[i] : i \in DOMAIN AsciiOrder} |->
        CHOOSE i \in DOMAIN AsciiOrder : AsciiOrder[i] = c]

Ord(c) == CharCode[c]

RECURSIVE StrLess(_, _)
StrLess(a, b) ==
    IF b = <<>> THEN FALSE
    ELSE IF a = <<>> THEN TRUE
    ELSE IF Head(a) = Head(b) THEN StrLess(Tail(a), Tail(b))
    ELSE Ord(Head(a)) < Ord(Head(b))

\* str.lower() on one character
LowerMap ==
    [c \in DOMAIN CharCode |->
        IF CharCode[c] >= CharCode["A"] /\ CharCode[c] <= CharCode["Z"]
        THEN AsciiOrder[CharCode[c] + (CharCode["a"] - CharCode["A"])]
        ELSE c]

LowerChar(c) == LowerMap[c]

Lower(s) == [i \in 1..Len(s) |-> LowerChar(s[i])]

StartsWith(s, p) == Len(p) <= Len(s) /\ SubSeq(s, 1, Len(p)) = p

EndsWith(s, p) == Len(p) <= Len(s) /\ SubSeq(s, Len(s) - Len(p) + 1, Len(s)) = p

\* Python's `sub in s`
Contains(s, sub) ==
    \E i \in 0..(Len(s) - Len(sub)) : SubSeq(s, i + 1, i + Len(sub)) = sub

\* str.rfind(c) as a 1-based position, 0 when c does not occur
RECURSIVE RFindFrom(_, _, _)
RFindFrom(s, c, i) == IF i = 0 \/ s[i] = c THEN i ELSE RFindFrom(s, c, i - 1)

RFind(s, c) == RFindFrom(s, c, Len(s))

\* str.find(c) as a 1-based position, 0 when c does not occur
RECURSIVE FindFrom(_, _, _)
FindFrom(s, c, i) ==
    IF i > Len(s) THEN 0 ELSE IF s[i] = c THEN i ELSE FindFrom(s, c, i + 1)

Find(s, c) == FindFrom(s, c, 1)

\* s.split("/")
RECURSIVE Split(_)
Split(s) ==
    LET i == Find(s, "/")
    IN  IF i = 0 THEN <<s>>
        ELSE <<SubSeq(s, 1, i - 1)>> \o Split(SubSeq(s, i + 1, Len(s)))

\* os.path.basename
Basename(s) == SubSeq(s, RFind(s, "/") + 1, Len(s))

\* os.path.splitext(s)[1]: from the last dot of the basename, unless only
\* dots come before it
Splitext(s) ==
    LET b == Basename(s)
        d == RFind(b, ".")
    IN  IF d = 0 \/ (\A i \in 1..(d - 1) : b[i] = ".") THEN <<>>
        ELSE SubSeq(b, d, Len(b))

\* str.strip() for the blanks of the model
RECURSIVE LStrip(_)
LStrip(s) == IF s # <<>> /\ Head(s) \in {" ", "\n"} THEN LStrip(Tail(s)) ELSE s

RECURSIVE RStrip(_)
RStrip(s) ==
    IF s # <<>> /\ s[Len(s)] \in {" ", "\n"} THEN RStrip(SubSeq(s, 1, Len(s) - 1)) ELSE s

Strip(s) == RStrip(LStrip(s))

\* a slice that keeps one element too many
TakeOneMore(s, n) == SubSeq(s, 1, IF n + 1 < Len(s) THEN n + 1 ELSE Len(s))

\* Python's seq[:n] for n >= 0
Take(s, n) == SubSeq(s, 1, IF n < Len(s) THEN n ELSE Len(s))

Min(a, b) == IF a < b THEN a ELSE b

\* ------------------------------------------------------------------------
\* Program constants
\* ------------------------------------------------------------------------

MAX_SYMBOLS_PER_FILE == 25

DEFAULT_EXCLUDED_DIRS == {
    <<".", "g", "i", "t">>,
    <<"n", "o", "d", "e", "_", "m", "o", "d", "u", "l", "e", "s">>,
    <<"d", "i", "s", "t">>,
    <<"b", "u", "i", "l", "d">>,
    <<"D", "e", "r", "i", "v", "e", "d", "D", "a", "t", "a">>,
    <<".", "n", "e", "x", "t">>,
    <<".", "t", "u", "r", "b", "o">>,
    <<".", "c", "a", "c", "h", "e">>,
    <<".", "i", "d", "e", "a">>,
    <<".", "v", "s", "c", "o", "d", "e">>,
    <<".", "p", "n", "p", "m", "-", "s", "t", "o", "r", "e">>,
    <<"P", "o", "d", "s">>,
    <<"_", "_", "p", "y", "c", "a", "c", "h", "e", "_", "_">>,
    <<".", "p", "y", "t", "e", "s", "t", "_", "c", "a", "c", "h", "e">>,
    <<".", "m", "y", "p", "y", "_", "c", "a", "c", "h", "e">>,
    <<".", "r", "u", "f", "f", "_", "c", "a", "c", "h", "e">>,
    <<".", "v", "e", "n", "v">>,
    <<"v", "e", "n", "v">>,
    <<".", "t", "o", "x">>,
    <<"t", "a", "r", "g", "e", "t">>,
    <<"c", "o", "v", "e", "r", "a", "g", "e">>,
    <<".", "b", "u", "i", "l", "d">>,
    <<".", "s", "w", "i", "f", "t", "p", "m">> }

IMPORTANT_FILENAMES == {
    <<"r", "e", "a", "d", "m", "e">>,
    <<"r", "e", "a", "d", "m", "e", ".", "m", "d">>,
    <<"r", "e", "a", "d", "m", "e", ".", "r", "s", "t">>,
    <<"r", "e", "a", "d", "m", "e", ".", "t", "x", "t">>,
    <<"p", "a", "c", "k", "a", "g", "e", ".", "j", "s", "o", "n">>,
    <<"p", "n", "p", "m", "-", "l", "o", "c", "k", ".", "y", "a", "m", "l">>,
    <<"y", "a", "r", "n", ".", "l", "o", "c", "k">>,
    <<"p", "a", "c", "k", "a", "g", "e", "-", "l", "o", "c", "k", ".", "j", "s", "o", "n">>,
    <<"c", "a", "r", "g", "o", ".", "t", "o", "m", "l">>,
    <<"p", "y", "p", "r", "o", "j", "e", "c", "t", ".", "t", "o", "m", "l">>,
    <<"r", "e", "q", "u", "i", "r", "e", "m", "e", "n", "t", "s", ".", "t", "x", "t">>,
    <<"s", "e", "t", "u", "p", ".", "p", "y">>,
    <<"t", "s", "c", "o", "n", "f", "i", "g", ".", "j", "s", "o", "n">>,
    <<"t", "s", "c", "o", "n", "f", "i", "g", ".", "b", "a", "s", "e", ".", "j", "s", "o", "n">>,
    <<"t", "s", "c", "o", "n", "f", "i", "g", ".", "a", "p", "p", ".", "j", "s", "o", "n">>,
    <<"t", "s", "c", "o", "n", "f", "i", "g", ".", "n", "o", "d", "e", ".", "j", "s", "o", "n">>,
    <<"c", "o", "n", "f", "i", "g", ".", "y", "a", "m", "l">>,
    <<"c", "o", "n", "f", "i", "g", ".", "y", "m", "l">> }

ENTRYPOINT_FILENAMES == {
    <<"m", "a", "i", "n", ".", "t", "s">>,
    <<"m", "a", "i", "n", ".", "t", "s", "x">>,
    <<"m", "a", "i", "n", ".", "j", "s">>,
    <<"m", "a", "i", "n", ".", "j", "s", "x">>,
    <<"i", "n", "d", "e", "x", ".", "t", "s">>,
    <<"i", "n", "d", "e", "x", ".", "t", "s", "x">>,
    <<"i", "n", "d", "e", "x", ".", "j", "s">>,
    <<"i", "n", "d", "e", "x", ".", "j", "s", "x">>,
    <<"a", "p", "p", ".", "t", "s">>,
    <<"a", "p", "p", ".", "t", "s", "x">>,
    <<"a", "p", "p", ".", "j", "s">>,
    <<"a", "p", "p", ".", "j", "s", "x">> }

\* EXT_SCAN_PRIORITY.get(ext, 100)
EXT_SCAN_PRIORITY(ext) ==
    CASE ext = <<".", "s", "w", "i", "f", "t">> -> 0
      [] ext \in {<<".", "t", "s">>, <<".", "t", "s", "x">>} -> 1
      [] ext \in {<<".", "j", "s">>, <<".", "j", "s", "x">>} -> 2
      [] ext = <<".", "p", "y">> -> 3
      [] ext = <<".", "r", "s">> -> 4
      [] ext = <<".", "g", "o">> -> 5
      [] ext \in {<<".", "j", "a", "v", "a">>, <<".", "k", "t">>} -> 6
      [] ext = <<".", "m", "d">> -> 7
      [] ext \in {<<".", "y", "m", "l">>, <<".", "y", "a", "m", "l">>} -> 8
      [] ext = <<".", "t", "o", "m", "l">> -> 9
      [] ext = <<".", "j", "s", "o", "n">> -> 10
      [] OTHER -> 100

\* ------------------------------------------------------------------------
\* Path Filter
\* ------------------------------------------------------------------------

\* fnmatch.fnmatch on POSIX (normcase is the identity): `*` matches any run
\* of characters, "/" included, `?` any one character, the whole name must
\* match.  Bracket classes do not occur in the patterns of the model.
RECURSIVE fnmatch(_, _)
fnmatch(name, pat) ==
    IF pat = <<>> THEN name = <<>>
    ELSE IF Head(pat) = "*"
         THEN fnmatch(name, Tail(pat)) \/ (name # <<>> /\ fnmatch(Tail(name), pat))
         ELSE /\ name # <<>>
              /\ (Head(pat) = "?" \/ Head(pat) = Head(name))
              /\ fnmatch(Tail(name), Tail(pat))

match_pattern(pattern, rel_path, is_dir) ==
    IF EndsWith(pattern, <<"/">>)
    THEN IF ~is_dir THEN FALSE
         ELSE LET prefix == SubSeq(pattern, 1, Len(pattern) - 1)
              IN  rel_path = prefix \/ StartsWith(rel_path, prefix \o <<"/">>)
    ELSE fnmatch(rel_path, pattern) \/ fnmatch(Basename(rel_path), pattern)

AnyMatch(patterns, rel_path, is_dir) ==
    \E i \in 1..Len(patterns) : match_pattern(patterns[i], rel_path, is_dir)

\* a filter that looks for a denylisted name in the first segment only
InExcludedDirTopOnly(parts, exclude_dirs) == Head(parts) \in exclude_dirs

\* line 244: any(part in exclude_dirs for part in parts)
InExcludedDir(parts, exclude_dirs) == \E i \in 1..Len(parts) : parts[i] \in exclude_dirs

\* a filter in which a negation pattern never re-includes
NegationIgnored(gitignore_neg_patterns, rel_path, is_dir) == FALSE

\* lines 254-256: a negation pattern matches
NegationOverrides(gitignore_neg_patterns, rel_path, is_dir) ==
    gitignore_neg_patterns # <<>> /\ AnyMatch(gitignore_neg_patterns, rel_path, is_dir)

should_exclude(rel_path, is_dir, exclude_dirs, exclude_globs, include_globs, gitignore_patterns, gitignore_neg_patterns) ==
    LET parts == Split(rel_path)
    IN  IF InExcludedDir(parts, exclude_dirs) THEN TRUE
        ELSE IF AnyMatch(exclude_globs, rel_path, is_dir) THEN TRUE
        ELSE IF gitignore_patterns # <<>> /\ AnyMatch(gitignore_patterns, rel_path, is_dir)
             THEN IF NegationOverrides(gitignore_neg_patterns, rel_path, is_dir)
                  THEN FALSE
                  ELSE TRUE
        ELSE IF include_globs # <<>> THEN ~AnyMatch(include_globs, rel_path, is_dir)
        ELSE FALSE

\* load_gitignore: gi.state is "absent" when <root>/.gitignore does not
\* exist, "unreadable" when reading it raises, "ok" otherwise; gi.lines are
\* its lines.
RECURSIVE GitignoreLines(_, _)
GitignoreLines(file_lines, neg) ==
    IF file_lines = <<>> THEN <<>>
    ELSE LET line == Strip(Head(file_lines))
             rest == GitignoreLines(Tail(file_lines), neg)
         IN  IF line = <<>> \/ StartsWith(line, <<"#">>) THEN rest
             ELSE IF StartsWith(line, <<"!">>)
                  THEN IF neg THEN <<Tail(line)>> \o rest ELSE rest
                  ELSE IF neg THEN rest ELSE <<line>> \o rest

load_gitignore(gi) ==
    IF gi.state # "ok"
    THEN [patterns |-> <<>>, neg_patterns |-> <<>>]
    ELSE [patterns |-> GitignoreLines(gi.lines, FALSE),
          neg_patterns |-> GitignoreLines(gi.lines, TRUE)]

\* ------------------------------------------------------------------------
\* The directory tree on disk: the set of relative paths of its files.  A
\* directory is a proper ancestor of a file.
\* ------------------------------------------------------------------------

RECURSIVE JoinPath(_)
JoinPath(parts) ==
    IF Len(parts) = 1 THEN Head(parts)
    ELSE Head(parts) \o <<"/">> \o JoinPath(Tail(parts))

NumParts(rel_dir) == IF rel_dir = <<>> THEN 0 ELSE Len(Split(rel_dir))

\* the entries of directory rel_dir (os.listdir), as relative paths
ChildrenOf(disk, rel_dir) ==
    { JoinPath(SubSeq(Split(p), 1, NumParts(rel_dir) + 1)) :
        p \in { q \in disk : rel_dir = <<>> \/ StartsWith(q, rel_dir \o <<"/">>) } }

\* os.path.isdir
IsDir(disk, rel) == rel \notin disk

\* every directory of the tree
DirsOf(disk) ==
    UNION { { JoinPath(SubSeq(Split(p), 1, k)) : k \in 1..(Len(Split(p)) - 1) } : p \in disk }

Reverse(s) == [i \in 1..Len(s) |-> s[Len(s) + 1 - i]]

\* the elements of a set of strings in ascending order
RECURSIVE SortPaths(_)
SortPaths(S) ==
    IF S = {} THEN <<>>
    ELSE LET m == CHOOSE x \in S : \A y \in S \ {x} : StrLess(x, y)
         IN  <<m>> \o SortPaths(S \ {m})

\* the order in which the operating system lists directory entries during
\* this run: a sequence that holds every file and directory of the tree once
VARIABLE os_order

\* os.listdir / the dirnames and filenames of os.walk: the entries of S as
\* the operating system lists them
RECURSIVE ListingFrom(_, _)
ListingFrom(order, S) ==
    IF order = <<>> THEN <<>>
    ELSE (IF Head(order) \in S THEN <<Head(order)>> ELSE <<>>) \o ListingFrom(Tail(order), S)

Listing(S) == ListingFrom(os_order, S)

\* a walk that takes the names as the operating system lists them
Unsorted(names) == names

\* sorted(names) on a list of distinct names
Sorted(names) == SortPaths({names[i] : i \in 1..Len(names)})

Excluded(flt, rel, is_dir) ==
    should_exclude(rel, is_dir, flt.exclude_dirs, flt.exclude_globs, flt.include_globs, flt.gitignore_patterns, flt.gitignore_neg)

\* iter_files: os.walk top-down, directories pruned in place, the files of
\* a directory before its subdirectories
RECURSIVE WalkDir(_, _, _)
RECURSIVE WalkDirs(_, _, _)
WalkDir(disk, flt, rel_dir) ==
    LET kids == ChildrenOf(disk, rel_dir)
        pruned_dirs == Sorted(Listing({k \in kids : IsDir(disk, k) /\ ~Excluded(flt, k, TRUE)}))
        filenames == Sorted(Listing({k \in kids : ~IsDir(disk, k) /\ ~Excluded(flt, k, FALSE)}))
    IN  filenames \o WalkDirs(disk, flt, pruned_dirs)

WalkDirs(disk, flt, dirs) ==
    IF dirs = <<>> THEN <<>>
    ELSE WalkDir(disk, flt, Head(dirs)) \o WalkDirs(disk, flt, Tail(dirs))

iter_files(disk, flt) == WalkDir(disk, flt, <<>>)

\* ------------------------------------------------------------------------
\* Tree Builder
\* ------------------------------------------------------------------------

\* build_tree.walk: the listed entries, in order
RECURSIVE TreeWalk(_, _, _, _, _)
RECURSIVE TreeWalkDirs(_, _, _, _, _)
TreeWalk(disk, flt, max_depth, rel_dir, depth) ==
    IF depth > max_depth THEN <<>>
    ELSE LET kids == ChildrenOf(disk, rel_dir)
             dirs == Sorted(Listing({k \in kids : IsDir(disk, k) /\ ~Excluded(flt, k, TRUE)}))
             fls == Sorted(Listing({k \in kids : ~IsDir(disk, k) /\ ~Excluded(flt, k, FALSE)}))
         IN  TreeWalkDirs(disk, flt, max_depth, dirs, depth)
             \o [i \in 1..Len(fls) |-> [rel |-> fls[i], depth |-> depth, is_dir |-> FALSE]]

TreeWalkDirs(disk, flt, max_depth, dirs, depth) ==
    IF dirs = <<>> THEN <<>>
    ELSE <<[rel |-> Head(dirs), depth |-> depth, is_dir |-> TRUE]>>
         \o (IF depth < max_depth
             THEN TreeWalk(disk, flt, max_depth, Head(dirs), depth + 1)
             ELSE <<>>)
         \o TreeWalkDirs(disk, flt, max_depth, Tail(dirs), depth)

RECURSIVE Indent(_)
Indent(depth) == IF depth = 0 THEN <<>> ELSE <<" ", " ">> \o Indent(depth - 1)

\* "  " * depth + entry (+ "/")
TreeLine(e) ==
    Indent(e.depth) \o Basename(e.rel) \o (IF e.is_dir THEN <<"/">> ELSE <<>>)

TreeLines(entries) == [i \in 1..Len(entries) |-> TreeLine(entries[i])]

\* "\n".join(lines)
RECURSIVE JoinLines(_)
JoinLines(lines) ==
    IF lines = <<>> THEN <<>>
    ELSE IF Len(lines) = 1 THEN Head(lines)
    ELSE Head(lines) \o <<"\n">> \o JoinLines(Tail(lines))

\* the end of build_tree: join the lines and cut at max_chars
RenderTree(lines, max_chars) ==
    LET full == JoinLines(lines)
    IN  IF Len(full) <= max_chars THEN [tree |-> full, truncated |-> FALSE]
        ELSE LET truncated == Take(full, max_chars)
                 last_newline == RFind(truncated, "\n") - 1
             IN  [tree |-> IF last_newline > 0 THEN Take(truncated, last_newline)
                           ELSE truncated,
                  truncated |-> TRUE]

build_tree(disk, flt, max_depth, max_chars) ==
    RenderTree(TreeLines(TreeWalk(disk, flt, max_depth, <<>>, 0)), max_chars)

\* ------------------------------------------------------------------------
\* File Scanner
\*
\* A file on disk is a sequence of lines; a line is [len, kw, name]: its
\* length in bytes, the keyword its declaration starts with ("blank" for a
\* line that strips to nothing, "comment" for one that starts with a comment
\* marker, "text" for any other line without a declaration) and the declared
\* name.
\* ------------------------------------------------------------------------

None == -1

KINDS == {"class", "struct", "func", "protocol", "enum", "typealias", "var", "let"}

TS_PATTERNS ==
    << [kws |-> {"class"}, kind |-> "class"],
       [kws |-> {"interface"}, kind |-> "typealias"],
       [kws |-> {"type"}, kind |-> "typealias"],
       [kws |-> {"enum"}, kind |-> "enum"],
       [kws |-> {"function"}, kind |-> "func"],
       [kws |-> {"const", "let", "var"}, kind |-> "var"] >>

PY_PATTERNS ==
    << [kws |-> {"class"}, kind |-> "class"],
       [kws |-> {"def"}, kind |-> "func"] >>

\* kind "None": the kind is the keyword the pattern captured
SWIFT_PATTERNS ==
    << [kws |-> {"class", "struct", "protocol", "enum", "typealias", "actor"},
        kind |-> "None"] >>

PatternExts ==
    {<<".", "t", "s">>, <<".", "t", "s", "x">>, <<".", "j", "s">>, <<".", "j", "s", "x">>,
     <<".", "p", "y">>, <<".", "s", "w", "i", "f", "t">>}

\* SYMBOL_PATTERNS.get(ext); <<>> stands for None (every registered table is
\* non-empty)
SYMBOL_PATTERNS(ext) ==
    CASE ext = <<".", "p", "y">> -> PY_PATTERNS
      [] ext = <<".", "s", "w", "i", "f", "t">> -> SWIFT_PATTERNS
      [] ext \in PatternExts \ {<<".", "p", "y">>, <<".", "s", "w", "i", "f", "t">>} -> TS_PATTERNS
      [] OTHER -> <<>>

\* lines 441-461
NormalizeKind(kind) ==
    IF kind \in KINDS THEN kind
    ELSE LET k1 == IF kind \in {"actor"} THEN "class" ELSE kind
         IN  IF k1 \in {"interface"} THEN "typealias"
             ELSE IF k1 \in {"function"} THEN "func"
             ELSE IF k1 \in {"const"} THEN "var"
             ELSE "typealias"

\* the first pattern of the list that matches the line, 0 if none
FirstMatch(patterns, line) ==
    IF \E i \in 1..Len(patterns) : line.kw \in patterns[i].kws
    THEN CHOOSE i \in 1..Len(patterns) :
            /\ line.kw \in patterns[i].kws
            /\ \A j \in 1..(i - 1) : line.kw \notin patterns[j].kws
    ELSE 0

SymbolOf(patterns, line, rel_path, line_count) ==
    LET pat == patterns[FirstMatch(patterns, line)]
        kind == IF pat.kind = "None" THEN line.kw ELSE pat.kind
    IN  [name |-> line.name, kind |-> NormalizeKind(kind), path |-> rel_path, line |-> line_count]

\* a cap that lets one more symbol in
SymbolCapReachedLate(file_symbols) == Len(file_symbols) > MAX_SYMBOLS_PER_FILE

\* the per-file symbol cap (line 470)
SymbolCapReached(file_symbols) == Len(file_symbols) >= MAX_SYMBOLS_PER_FILE

\* the `for line in f` loop; st.patterns is the local `patterns`
RECURSIVE ScanLoop(_, _, _, _, _, _)
ScanLoop(lines, st, rel_path, max_file_bytes, max_scan_lines, max_total_bytes_remaining) ==
    IF lines = <<>> THEN st
    ELSE
      LET line == Head(lines)
          lc == st.line_count + 1
          br == st.bytes_read + line.len
      IN  IF lc > max_scan_lines THEN [st EXCEPT !.line_count = lc]
          ELSE IF max_total_bytes_remaining <= 0
               THEN [st EXCEPT !.line_count = lc, !.truncated = TRUE]
          ELSE IF br > max_file_bytes \/ br > max_total_bytes_remaining
               THEN [st EXCEPT !.line_count = lc, !.bytes_read = br, !.truncated = TRUE]
          ELSE IF \/ st.patterns = <<>>
                  \/ line.kw \in {"blank", "comment"}
                  \/ FirstMatch(st.patterns, line) = 0
               THEN ScanLoop(Tail(lines), [st EXCEPT !.line_count = lc, !.bytes_read = br],
                             rel_path, max_file_bytes, max_scan_lines, max_total_bytes_remaining)
          ELSE LET syms == Append(st.symbols, SymbolOf(st.patterns, line, rel_path, lc))
               IN  ScanLoop(Tail(lines),
                            [st EXCEPT !.line_count = lc, !.bytes_read = br, !.symbols = syms,
                                       !.patterns = IF SymbolCapReached(syms) THEN <<>> ELSE @],
                            rel_path, max_file_bytes, max_scan_lines, max_total_bytes_remaining)

RECURSIVE SumLens(_)
SumLens(lines) == IF lines = <<>> THEN 0 ELSE Head(lines).len + SumLens(Tail(lines))

\* os.path.getsize
FileSize(lines) == SumLens(lines)

\* readable is false when opening or reading the file raises
\* a scan that reports a read error as a truncation
ReadFailedTruncated ==
    [line_count |-> None, symbols |-> <<>>, bytes_read |-> 0, truncated |-> TRUE]

\* lines 474-475: what scan_file returns when opening or reading raises
ReadFailed ==
    [line_count |-> None, symbols |-> <<>>, bytes_read |-> 0, truncated |-> FALSE]

scan_file(rel_path, lines, readable, max_file_kb, max_file_bytes, max_scan_lines, max_total_bytes_remaining) ==
    IF FileSize(lines) > 1024 * max_file_kb
    THEN [line_count |-> None, symbols |-> <<>>, bytes_read |-> 0, truncated |-> FALSE]
    ELSE IF ~readable
    THEN ReadFailed
    ELSE LET st == ScanLoop(lines,
                            [line_count |-> 0, symbols |-> <<>>, bytes_read |-> 0,
                             truncated |-> FALSE,
                             patterns |-> SYMBOL_PATTERNS(Lower(Splitext(rel_path)))],
                            rel_path, max_file_bytes, max_scan_lines, max_total_bytes_remaining)
         IN  [line_count |-> st.line_count, symbols |-> st.symbols,
              bytes_read |-> st.bytes_read, truncated |-> st.truncated]

\* ------------------------------------------------------------------------
\* Scan Scheduler
\* ------------------------------------------------------------------------

group_key(rel_path) ==
    IF Contains(rel_path, <<"/">>) THEN Split(rel_path)[1] ELSE rel_path

ext_priority(rel_path) == EXT_SCAN_PRIORITY(Lower(Splitext(rel_path)))

NAME_TOKENS ==
    << <<"o", "r", "c", "h", "e", "s", "t", "r", "a", "t", "o", "r">>,
       <<"s", "h", "e", "r", "p", "a">>,
       <<"s", "k", "i", "l", "l", "k", "i", "t">>,
       <<"w", "o", "r", "k", "f", "l", "o", "w", "p", "a", "c", "k">>,
       <<"w", "o", "r", "k", "f", "l", "o", "w">>,
       <<"s", "k", "i", "l", "l">>,
       <<"r", "e", "g", "i", "s", "t", "r", "y">>,
       <<"e", "x", "e", "c", "u", "t", "o", "r">>,
       <<"p", "l", "a", "n", "n", "e", "r">>,
       <<"p", "r", "o", "v", "i", "d", "e", "r">>,
       <<"s", "e", "s", "s", "i", "o", "n">>,
       <<"m", "a", "n", "a", "g", "e", "r">> >>

name_priority(rel_path) ==
    LET base == Lower(Basename(rel_path))
        hits == {i \in 1..Len(NAME_TOKENS) : Contains(base, NAME_TOKENS[i])}
    IN  IF hits = {} THEN Len(NAME_TOKENS) + 1
        ELSE (CHOOSE i \in hits : \A j \in hits : i <= j) - 1

\* a sort key of the path alone
ScanKeyLessByPath(a, b) == StrLess(a, b)

\* the sort key of line 524: (extension priority, name priority, path)
ScanKeyLess(a, b) ==
    IF ext_priority(a) # ext_priority(b) THEN ext_priority(a) < ext_priority(b)
    ELSE IF name_priority(a) # name_priority(b) THEN name_priority(a) < name_priority(b)
    ELSE StrLess(a, b)

RECURSIVE SortGroup(_)
SortGroup(S) ==
    IF S = {} THEN <<>>
    ELSE LET m == CHOOSE x \in S : \A y \in S \ {x} : ScanKeyLess(x, y)
         IN  <<m>> \o SortGroup(S \ {m})

\* one pass of `for k in keys` with every index equal to round - 1
RECURSIVE RoundOf(_, _)
RoundOf(groups, round) ==
    IF groups = <<>> THEN <<>>
    ELSE (IF round > Len(Head(groups)) THEN <<>> ELSE <<Head(groups)[round]>>)
         \o RoundOf(Tail(groups), round)

\* no interleaving: group after group
RECURSIVE GroupAfterGroup(_, _)
GroupAfterGroup(groups, round) ==
    IF groups = <<>> THEN <<>>
    ELSE Head(groups) \o GroupAfterGroup(Tail(groups), round)

\* the `while True` loop of line 533
RECURSIVE Interleave(_, _)
Interleave(groups, round) ==
    IF RoundOf(groups, round) = <<>> THEN <<>>
    ELSE RoundOf(groups, round) \o Interleave(groups, round + 1)

reorder_files_for_scan(file_list) ==
    LET keys == SortPaths({group_key(file_list[i]) : i \in 1..Len(file_list)})
        grouped == [j \in 1..Len(keys) |->
                       SortGroup({file_list[i] : i \in {n \in 1..Len(file_list) :
                                                         group_key(file_list[n]) = keys[j]}})]
    IN  Interleave(grouped, 1)

\* ------------------------------------------------------------------------
\* Ranker and Report Assembler
\* ------------------------------------------------------------------------

CORE_TOKENS ==
    { <<"/", "s", "r", "c", "/">>,
      <<"/", "s", "o", "u", "r", "c", "e", "s", "/">>,
      <<"/", "c", "o", "r", "e", "/">>,
      <<"/", "s", "e", "r", "v", "i", "c", "e", "s", "/">>,
      <<"/", "p", "l", "u", "g", "i", "n", "s", "/">> }

\* any(token in f"/{path}".lower() for token in (...))
IsCorePath(path) == \E token \in CORE_TOKENS : Contains(Lower(<<"/">> \o path), token)

\* a readme bonus no larger than what an entrypoint with many lines gets
ReadmeScoreLow == 60 + 40

\* line 659: the score a readme gets
README_SCORE == 120

\* line_counts is a function from the scanned paths to their line counts
score_file(path, lcs) ==
    LET base == Lower(Basename(path))
        s1 == IF base \in IMPORTANT_FILENAMES THEN 100 ELSE 0
        r1 == IF base \in IMPORTANT_FILENAMES THEN "config" ELSE "other"
        s2 == IF StartsWith(base, <<"r", "e", "a", "d", "m", "e">>) THEN s1 + README_SCORE ELSE s1
        r2 == IF StartsWith(base, <<"r", "e", "a", "d", "m", "e">>) THEN "readme" ELSE r1
        s3 == IF base \in ENTRYPOINT_FILENAMES THEN s2 + 60 ELSE s2
        r3 == IF base \in ENTRYPOINT_FILENAMES THEN "entrypoint" ELSE r2
        s4 == IF IsCorePath(path) THEN s3 + 15 ELSE s3
        r4 == IF IsCorePath(path) /\ r3 = "other" THEN "core" ELSE r3
        s5 == IF path \in DOMAIN lcs THEN s4 + Min(lcs[path] \div 50, 40) ELSE s4
        r5 == IF path \in DOMAIN lcs /\ lcs[path] >= 400 THEN "large" ELSE r4
    IN  [score |-> s5, reason |-> r5]

\* a sort that puts the lower score first
ScoredLessAscending(a, b) ==
    IF a.score # b.score THEN a.score < b.score ELSE StrLess(a.path, b.path)

\* the sort key of line 688: (-score, path)
ScoredLess(a, b) ==
    IF a.score # b.score THEN a.score > b.score ELSE StrLess(a.path, b.path)

RECURSIVE SortScored(_)
SortScored(S) ==
    IF S = {} THEN <<>>
    ELSE LET m == CHOOSE x \in S : \A y \in S \ {x} : ScoredLess(x, y)
         IN  <<m>> \o SortScored(S \ {m})

TopFiles(infos, lcs, max_top_files) ==
    LET scored == SortScored({ [score |-> score_file(infos[i].path, lcs).score,
                                path |-> infos[i].path,
                                reason |-> score_file(infos[i].path, lcs).reason] :
                               i \in 1..Len(infos) })
        top == Take(scored, max_top_files)
    IN  [i \in 1..Len(top) |-> [path |-> top[i].path, reason |-> top[i].reason]]

\* the sort key of line 695: (path, line, name); names are one character
SymbolLess(a, b) ==
    IF a.path # b.path THEN StrLess(a.path, b.path)
    ELSE IF a.line # b.line THEN a.line < b.line
    ELSE StrLess(<<a.name>>, <<b.name>>)

RECURSIVE SortSymbolSet(_)
SortSymbolSet(S) ==
    IF S = {} THEN <<>>
    ELSE LET m == CHOOSE x \in S : \A y \in S \ {x} : SymbolLess(x, y)
         IN  <<m>> \o SortSymbolSet(S \ {m})

SortSymbols(syms) == SortSymbolSet({syms[i] : i \in 1..Len(syms)})

\* the sort key of line 700: (-count, path)
CountLess(lcs, a, b) ==
    IF lcs[a] # lcs[b] THEN lcs[a] > lcs[b] ELSE StrLess(a, b)

RECURSIVE SortCounts(_, _)
SortCounts(lcs, S) ==
    IF S = {} THEN <<>>
    ELSE LET m == CHOOSE x \in S : \A y \in S \ {x} : CountLess(lcs, x, y)
         IN  <<m>> \o SortCounts(lcs, S \ {m})

Signals(path, count) ==
    (IF count >= 400 THEN <<"large">> ELSE <<>>)
    \o (IF IsCorePath(path) THEN <<"core">> ELSE <<>>)

\* a loop in which every visited file uses up a slot of the cap
RECURSIVE HotspotLoopSlots(_, _, _, _)
HotspotLoopSlots(items, lcs, acc, max_hotspots) ==
    IF items = <<>> \/ max_hotspots <= 0 THEN acc
    ELSE HotspotLoopSlots(Tail(items), lcs,
                          IF Signals(Head(items), lcs[Head(items)]) # <<>>
                          THEN Append(acc, [path |-> Head(items),
                                            signals |-> Signals(Head(items), lcs[Head(items)])])
                          ELSE acc,
                          max_hotspots - 1)

\* the loop of lines 699-720 over the sorted items
RECURSIVE HotspotLoop(_, _, _, _)
HotspotLoop(items, lcs, acc, max_hotspots) ==
    IF items = <<>> \/ Len(acc) >= max_hotspots THEN acc
    ELSE HotspotLoop(Tail(items), lcs,
                     IF Signals(Head(items), lcs[Head(items)]) # <<>>
                     THEN Append(acc, [path |-> Head(items),
                                       signals |-> Signals(Head(items), lcs[Head(items)])])
                     ELSE acc,
                     max_hotspots)

Hotspots(lcs, max_hotspots) ==
    HotspotLoop(SortCounts(lcs, DOMAIN lcs), lcs, <<>>, max_hotspots)

\* lines 722-740
Notes(tree_truncated, syms_truncated, fls_truncated, fb_truncated, tb_truncated, n_top, max_top_files, n_hot, max_hotspots, gi_patterns, head) ==
    (IF tree_truncated THEN <<"tree truncated">> ELSE <<>>)
    \o (IF syms_truncated THEN <<"symbols truncated">> ELSE <<>>)
    \o (IF fls_truncated THEN <<"files truncated">> ELSE <<>>)
    \o (IF fb_truncated THEN <<"file bytes truncated">> ELSE <<>>)
    \o (IF tb_truncated THEN <<"total bytes truncated">> ELSE <<>>)
    \o (IF n_top >= max_top_files THEN <<"top_files truncated">> ELSE <<>>)
    \o (IF n_hot >= max_hotspots THEN <<"hotspots truncated">> ELSE <<>>)
    \o (IF gi_patterns # <<>> THEN <<".gitignore patterns applied (basic)">> ELSE <<>>)
    \o (IF head = "" THEN <<"git head unavailable">> ELSE <<>>)

\* ------------------------------------------------------------------------
\* The driver's per-file bookkeeping (main, lines 601-636)
\* ------------------------------------------------------------------------

ShouldScan(rel_path) ==
    LET ext == Lower(Splitext(rel_path))
        base == Lower(Basename(rel_path))
    IN  \/ ext \in PatternExts
        \/ base \in IMPORTANT_FILENAMES
        \/ ext \in {<<".", "m", "d">>, <<".", "y", "m", "l">>, <<".", "y", "a", "m", "l">>}

\* a guard that still scans when the total equals the cap
BudgetLeftInclusive(total, max_total_bytes) == total <= max_total_bytes

\* the budget guard of line 610
BudgetLeft(total, max_total_bytes) == total < max_total_bytes

\* lines 620-626: the new (file_bytes_truncated, total_bytes_truncated);
\* total is total_bytes after line 619
SetFlags(fb_truncated, tb_truncated, scan_truncated, total, max_total_bytes) ==
    [file |-> fb_truncated \/ (scan_truncated /\ ~(total >= max_total_bytes)),
     total |-> tb_truncated \/ (scan_truncated /\ total >= max_total_bytes)
                            \/ total >= max_total_bytes]

\* a pool that drops its oldest symbol for the newest once it is full
AcceptSymbolsEvicting(syms, syms_truncated, file_symbols, max_symbols) ==
    IF file_symbols = <<>>
    THEN [symbols |-> syms, truncated |-> syms_truncated]
    ELSE IF max_symbols - Len(syms) <= 0
    THEN [symbols |-> IF syms = <<>> THEN syms ELSE Append(Tail(syms), file_symbols[1]),
          truncated |-> TRUE]
    ELSE LET ext == syms \o Take(file_symbols, max_symbols - Len(syms))
         IN  [symbols |-> ext, truncated |-> Len(ext) >= max_symbols]

\* lines 629-636: the new (symbols, symbols_truncated)
AcceptSymbols(syms, syms_truncated, file_symbols, max_symbols) ==
    IF syms_truncated \/ file_symbols = <<>>
    THEN [symbols |-> syms, truncated |-> syms_truncated]
    ELSE IF max_symbols - Len(syms) <= 0
    THEN [symbols |-> syms, truncated |-> TRUE]
    ELSE LET ext == syms \o Take(file_symbols, max_symbols - Len(syms))
         IN  [symbols |-> ext, truncated |-> Len(ext) >= max_symbols]

\* ------------------------------------------------------------------------
\* Bounds and inputs
\* ------------------------------------------------------------------------

MaxLines == 2          \* lines of one file
MaxLineLen == 2        \* bytes of one line
MaxSymbols == 2        \* largest --max-symbols
MaxTotalBytes == 2     \* largest --max-total-bytes
MaxFileBytes == 2      \* largest --max-file-bytes
MaxScanLines == 2      \* largest --max-scan-lines
MaxFileKb == 1         \* largest --max-file-kb
FilesCap == 4          \* --max-files of the scan runs
TopFilesCap == 2       \* --max-top-files of the scan runs
HotspotsCap == 1       \* --max-hotspots of the scan runs
TreeDepthCap == 1      \* --max-tree-depth of the scan runs
TreeCharsCap == 12     \* --max-tree-chars of the scan runs

SeqsUpTo(S, n) == UNION { [1..k -> S] : k \in 0..n }

P_a_py == <<"a", ".", "p", "y">>
P_lib_a_py == <<"l", "i", "b", "/", "a", ".", "p", "y">>
P_lib_b_py == <<"l", "i", "b", "/", "b", ".", "p", "y">>
P_lib_b_rs == <<"l", "i", "b", "/", "b", ".", "r", "s">>
P_src_c_py == <<"s", "r", "c", "/", "c", ".", "p", "y">>
P_nm_x_js == <<"n", "o", "d", "e", "_", "m", "o", "d", "u", "l", "e", "s", "/", "x", ".", "j", "s">>

\* the trees of the scan runs, each with the files whose stat raises and
\* the files whose read raises
ScanRepos ==
    { [paths |-> {P_a_py, P_nm_x_js}, broken |-> {}, unreadable |-> {}],
      [paths |-> {P_a_py, P_lib_b_rs}, broken |-> {P_lib_b_rs}, unreadable |-> {P_a_py}],
      [paths |-> {P_lib_a_py, P_lib_b_rs, P_src_c_py}, broken |-> {}, unreadable |-> {}],
      [paths |-> {P_lib_a_py, P_lib_b_py, P_src_c_py},
       broken |-> {P_lib_b_py}, unreadable |-> {P_lib_a_py}] }

\* what a file of the scan runs may hold: up to MaxLines lines of one
\* length, each a class declaration or plain text
ScanContents ==
    UNION { SeqsUpTo({ [len |-> l, kw |-> k, name |-> "X"] : k \in {"class", "text"} }, MaxLines) :
            l \in 1..MaxLineLen }

\* `git rev-parse HEAD`: a hash, or "" on any failure
GitHeads == {"", "c0ffee"}

NoGitignore == [state |-> "absent", lines |-> <<>>]

ScanArgs ==
    [ max_tree_chars : {TreeCharsCap}, max_symbols : 0..MaxSymbols,
      max_top_files : {TopFilesCap}, max_hotspots : {HotspotsCap},
      max_tree_depth : {TreeDepthCap}, max_file_kb : {0, MaxFileKb},
      max_file_bytes : 0..MaxFileBytes, max_scan_lines : 1..MaxScanLines,
      max_files : {FilesCap}, max_total_bytes : 0..MaxTotalBytes,
      include : {<<>>}, exclude : {<<>>} ]

\* the trees, globs and .gitignore files of the filter runs
FilterFilesCap == 5    \* largest --max-files of the filter runs
FilterTreeChars == 60  \* --max-tree-chars of the filter runs

P_keep_log == <<"k", "e", "e", "p", ".", "l", "o", "g">>
P_other_log == <<"o", "t", "h", "e", "r", ".", "l", "o", "g">>
P_src_a_py == <<"s", "r", "c", "/", "a", ".", "p", "y">>
P_src_keep_log == <<"s", "r", "c", "/", "k", "e", "e", "p", ".", "l", "o", "g">>
P_src_nm_x_js == <<"s", "r", "c", "/", "n", "o", "d", "e", "_", "m", "o", "d", "u", "l", "e", "s", "/", "x", ".", "j", "s">>

G_log == <<"*", ".", "l", "o", "g">>
G_py == <<"*", ".", "p", "y">>
G_js == <<"*", ".", "j", "s">>
G_src_dir == <<"s", "r", "c", "/">>
G_node_modules == <<"n", "o", "d", "e", "_", "m", "o", "d", "u", "l", "e", "s">>

FilterRepos ==
    { {P_keep_log, P_other_log, P_a_py, P_nm_x_js},
      {P_src_a_py, P_src_keep_log, P_src_nm_x_js, P_other_log} }

FilterGitignores ==
    { NoGitignore,
      [state |-> "unreadable", lines |-> <<>>],
      [state |-> "ok", lines |-> << <<"#", " ", "l", "o", "g", "s">>,
                                    <<" ", "*", ".", "l", "o", "g", " ">>,
                                    <<>>,
                                    <<"!", "k", "e", "e", "p", ".", "l", "o", "g">> >>],
      [state |-> "ok", lines |-> << G_node_modules, <<"!">> \o G_node_modules,
                                    G_js, <<"!">> \o G_js >>],
      [state |-> "ok", lines |-> << <<"!", "k", "e", "e", "p", ".", "l", "o", "g">> >>],
      [state |-> "ok", lines |-> << G_src_dir, <<"!">> \o G_src_dir >>] }

FilterExcludes == { <<>>, <<G_log>>, <<G_src_dir>> }

FilterIncludes == { <<>>, <<G_py>>, <<G_js, G_node_modules, G_py>>, <<G_py, <<"s", "r", "c">>>> }

FilterArgs ==
    [ max_tree_chars : {FilterTreeChars}, max_symbols : {FilterFilesCap},
      max_top_files : {FilterFilesCap}, max_hotspots : {HotspotsCap},
      max_tree_depth : {TreeDepthCap + 1}, max_file_kb : {MaxFileKb},
      max_file_bytes : {MaxFileBytes}, max_scan_lines : {MaxScanLines},
      max_files : {1, 2, FilterFilesCap}, max_total_bytes : {FilterFilesCap},
      include : FilterIncludes, exclude : FilterExcludes ]

\* every file of the filter and tree runs holds one class declaration
OneClass == { << [len |-> 1, kw |-> "class", name |-> "X"] >> }

\* the trees and contents of the declaration runs: one source file, whose
\* lines each start with a keyword and declare a name equal to the keyword
P_a_swift == <<"a", ".", "s", "w", "i", "f", "t">>
P_a_ts == <<"a", ".", "t", "s">>

KindRepos == { {P_a_swift}, {P_a_ts}, {P_a_py} }

Keywords ==
    {"class", "struct", "protocol", "enum", "typealias", "actor", "interface", "type",
     "function", "const", "let", "var", "def", "text"}

KindContents == SeqsUpTo({ [len |-> 1, kw |-> k, name |-> k] : k \in Keywords }, MaxLines)

\* the trees, line counts and caps of the ranking runs
RankLines == 2000      \* most lines of a file of the ranking runs

P_README_md == <<"R", "E", "A", "D", "M", "E", ".", "m", "d">>
P_README_adoc == <<"R", "E", "A", "D", "M", "E", ".", "a", "d", "o", "c">>
P_engine_py == <<"s", "r", "c", "/", "c", "o", "r", "e", "/", "e", "n", "g", "i", "n", "e", ".", "p", "y">>
P_src_main_ts == <<"s", "r", "c", "/", "m", "a", "i", "n", ".", "t", "s">>
P_package_json == <<"p", "a", "c", "k", "a", "g", "e", ".", "j", "s", "o", "n">>

RankRepos ==
    { {P_README_md, P_engine_py, P_src_main_ts},
      {P_README_adoc, P_src_main_ts, P_package_json},
      {P_lib_a_py, P_lib_b_py, P_src_c_py} }

\* the line counts a scan may have recorded, around the `large` threshold
RankCounts == {1, 399, 400, RankLines}

RankArgs ==
    [ max_tree_chars : {FilterTreeChars}, max_symbols : {MaxSymbols},
      max_top_files : 0..(TopFilesCap + 1), max_hotspots : 0..(HotspotsCap + 1),
      max_tree_depth : {TreeDepthCap}, max_file_kb : {RankLines},
      max_file_bytes : {RankLines}, max_scan_lines : {RankLines},
      max_files : {FilesCap}, max_total_bytes : {FilesCap * RankLines + 1},
      include : {<<>>}, exclude : {<<>>} ]

\* the trees and caps of the repeated runs
TwinRepos ==
    { {P_a_py, P_keep_log, P_lib_a_py}, {P_lib_a_py, P_lib_b_rs}, {P_lib_a_py, P_src_c_py} }

TwinArgs ==
    [ max_tree_chars : {TreeCharsCap}, max_symbols : {MaxSymbols},
      max_top_files : {TopFilesCap}, max_hotspots : {HotspotsCap},
      max_tree_depth : {TreeDepthCap}, max_file_kb : {MaxFileKb},
      max_file_bytes : {MaxFileBytes}, max_scan_lines : {MaxScanLines},
      max_files : {1, FilesCap}, max_total_bytes : {MaxTotalBytes},
      include : {<<>>}, exclude : {<<>>} ]

\* the trees and caps of the tree runs
P_src_main_py == <<"s", "r", "c", "/", "m", "a", "i", "n", ".", "p", "y">>

TreeRepos ==
    { {P_a_py}, {P_src_main_py}, {P_a_py, P_lib_a_py, P_lib_b_rs}, {P_a_py, P_keep_log} }

TreeArgs ==
    [ max_tree_chars : 0..TreeCharsCap, max_symbols : {MaxSymbols},
      max_top_files : {TopFilesCap}, max_hotspots : {HotspotsCap},
      max_tree_depth : {0, TreeDepthCap}, max_file_kb : {MaxFileKb},
      max_file_bytes : {MaxFileBytes}, max_scan_lines : {MaxScanLines},
      max_files : {FilesCap}, max_total_bytes : {MaxTotalBytes},
      include : {<<>>}, exclude : {<<>>} ]

\* the trees, contents and caps of the long-file runs: one Python file of
\* one-byte `def` lines and two-byte text lines, with about as many
\* declarations as one file may contribute
Extra == 2             \* declarations and lines beyond MAX_SYMBOLS_PER_FILE

Decls(n) == [i \in 1..n |-> [len |-> 1, kw |-> "def", name |-> "f"]]

Texts(n) == [i \in 1..n |-> [len |-> 2, kw |-> "text", name |-> "t"]]

LongRepos == { {P_a_py}, {P_lib_a_py}, {P_lib_b_py}, {P_src_c_py}, {P_src_a_py} }

\* what each file of the long-file runs holds
LongFile(rel_path) ==
    CASE rel_path = P_a_py -> Decls(MAX_SYMBOLS_PER_FILE - 1)
      [] rel_path = P_lib_a_py -> Decls(MAX_SYMBOLS_PER_FILE)
      [] rel_path = P_lib_b_py -> Decls(MAX_SYMBOLS_PER_FILE + Extra)
      [] rel_path = P_src_c_py -> Decls(MAX_SYMBOLS_PER_FILE) \o Texts(Extra)
      [] rel_path = P_src_a_py ->
            Texts(1) \o Decls(MAX_SYMBOLS_PER_FILE + 1) \o Texts(1) \o Decls(Extra)
      [] OTHER -> <<>>

LongArgs ==
    [ max_tree_chars : {TreeCharsCap},
      max_symbols : {MAX_SYMBOLS_PER_FILE + Extra + 1},
      max_top_files : {TopFilesCap}, max_hotspots : {HotspotsCap},
      max_tree_depth : {TreeDepthCap}, max_file_kb : {MaxFileKb},
      max_file_bytes : {MAX_SYMBOLS_PER_FILE + 1, 2 * MAX_SYMBOLS_PER_FILE},
      max_scan_lines : {MAX_SYMBOLS_PER_FILE, MAX_SYMBOLS_PER_FILE + 1,
                        2 * MAX_SYMBOLS_PER_FILE},
      max_files : {FilesCap},
      max_total_bytes : {MAX_SYMBOLS_PER_FILE + Extra, 2 * MAX_SYMBOLS_PER_FILE},
      include : {<<>>}, exclude : {<<>>} ]

\* the trees, contents and caps of the symbol-pool runs: up to six files of
\* at most two lines each, some with declarations and some without; in a
\* group the extension and the name tokens rank some files against their
\* path order
PoolBytes == 8         \* largest --max-total-bytes of the symbol-pool runs

P_lib_manager_py == <<"l", "i", "b", "/", "m", "a", "n", "a", "g", "e", "r", ".", "p", "y">>

PoolRepos ==
    SUBSET {P_a_py, P_lib_a_py, P_lib_b_py, P_lib_manager_py, P_src_c_py, P_src_main_ts} \ {{}}

\* what each file of the symbol-pool runs holds
PoolFile(rel_path) ==
    CASE rel_path = P_a_py -> Decls(1)
      [] rel_path = P_lib_a_py -> Decls(2)
      [] rel_path = P_lib_b_py -> Texts(1)
      [] rel_path = P_src_c_py -> Decls(2)
      [] OTHER -> <<>>

PoolArgs ==
    [ max_tree_chars : {TreeCharsCap}, max_symbols : 0..(MaxSymbols + 2),
      max_top_files : {TopFilesCap}, max_hotspots : {HotspotsCap},
      max_tree_depth : {TreeDepthCap}, max_file_kb : {MaxFileKb},
      max_file_bytes : {MaxFileBytes}, max_scan_lines : {MaxScanLines},
      max_files : {FilesCap}, max_total_bytes : {MaxTotalBytes + 1, PoolBytes},
      include : {<<>>}, exclude : {<<>>} ]

\* ------------------------------------------------------------------------
\* State
\* ------------------------------------------------------------------------

VARIABLES
    pc,                    \* "start", "scan", "done"
    repo,                  \* the files under repo_root (relative paths)
    broken,                \* the files whose stat raises (dangling links)
    unreadable,            \* the files whose read raises
    gitignore,             \* <root>/.gitignore
    args,                  \* the parsed command line
    git_head,
    gitignore_patterns, gitignore_neg,
    files, files_truncated,
    files_for_scan,
    idx,                   \* position of the scan loop in files_for_scan
    file_infos, symbols, line_counts, symbols_truncated,
    total_bytes, file_bytes_truncated, total_bytes_truncated,
    truncated,             \* what the last scan_file call reported (FALSE before
                           \* the first call)
    output,                \* the emitted report
    true_symbols,          \* history: the pattern-matching lines of the visited
                           \* candidates, counted up to MaxSymbols + 1
    cut_short,             \* history: a scan-eligible candidate was skipped for
                           \* the byte budget, or a scan stopped before the end
                           \* of its file at a cap
    twin                   \* the report of the run before this one on the same
                           \* tree, with the order the OS listed it in

vars ==
    << pc, repo, broken, unreadable, gitignore, args, git_head, gitignore_patterns, gitignore_neg,
       files, files_truncated, files_for_scan, idx, file_infos, symbols,
       line_counts, symbols_truncated, total_bytes, file_bytes_truncated,
       total_bytes_truncated, output, true_symbols, cut_short, os_order, twin,
       truncated >>

EmptyMap == [x \in {} |-> 0]

NoOutput ==
    [git_head |-> "", tree |-> <<>>, top_files |-> <<>>, symbols |-> <<>>,
     hotspots |-> <<>>, notes |-> <<>>]

\* the state before main() has done anything
Fresh ==
    /\ pc = "start"
    /\ git_head = ""
    /\ gitignore_patterns = <<>>
    /\ gitignore_neg = <<>>
    /\ files = <<>>
    /\ files_truncated = FALSE
    /\ files_for_scan = <<>>
    /\ idx = 1
    /\ file_infos = <<>>
    /\ symbols = <<>>
    /\ line_counts = EmptyMap
    /\ symbols_truncated = FALSE
    /\ total_bytes = 0
    /\ file_bytes_truncated = FALSE
    /\ total_bytes_truncated = FALSE
    /\ output = NoOutput
    /\ true_symbols = 0
    /\ cut_short = FALSE
    /\ truncated = FALSE

NoTwin == [output |-> NoOutput, os_order |-> <<>>]

\* the entries of a tree in descending order of their names
Descending(S) == Reverse(SortPaths(S))

\* the first run on a tree that the OS lists in descending order
FirstRun ==
    /\ os_order = Descending(repo \cup DirsOf(repo))
    /\ twin = NoTwin

Init ==
    /\ \E r \in ScanRepos : repo = r.paths /\ broken = r.broken /\ unreadable = r.unreadable
    /\ FirstRun
    /\ gitignore = NoGitignore
    /\ args \in ScanArgs
    /\ Fresh

InitFilter ==
    /\ repo \in FilterRepos
    /\ broken = {}
    /\ unreadable = {}
    /\ gitignore \in FilterGitignores
    /\ FirstRun
    /\ args \in FilterArgs
    /\ Fresh

InitTree ==
    /\ repo \in TreeRepos
    /\ broken = {}
    /\ unreadable = {}
    /\ gitignore = NoGitignore
    /\ FirstRun
    /\ args \in TreeArgs
    /\ Fresh

\* every order in which the OS may list the entries of a tree
AllOrders(S) ==
    {f \in [1..Cardinality(S) -> S] : \A i, j \in 1..Cardinality(S) : i # j => f[i] # f[j]}

InitTwin ==
    /\ repo \in TwinRepos
    /\ broken = {}
    /\ unreadable = {}
    /\ gitignore = NoGitignore
    /\ os_order \in AllOrders(repo \cup DirsOf(repo))
    /\ twin = NoTwin
    /\ args \in TwinArgs
    /\ Fresh

InitKinds ==
    /\ repo \in KindRepos
    /\ broken = {}
    /\ unreadable = {}
    /\ gitignore = NoGitignore
    /\ FirstRun
    /\ args \in TwinArgs
    /\ Fresh

InitLong ==
    /\ repo \in LongRepos
    /\ broken = {}
    /\ unreadable = {}
    /\ gitignore = NoGitignore
    /\ FirstRun
    /\ args \in LongArgs
    /\ Fresh

InitPool ==
    /\ repo \in PoolRepos
    /\ broken = {}
    /\ unreadable = {}
    /\ gitignore = NoGitignore
    /\ FirstRun
    /\ args \in PoolArgs
    /\ Fresh

RECURSIVE SumCounts(_, _)
SumCounts(lcs, D) ==
    IF D = {} THEN 0
    ELSE LET p == CHOOSE x \in D : TRUE IN lcs[p] + SumCounts(lcs, D \ {p})

\* the state at the end of the scan loop of a run over files of one-byte
\* lines without declarations: every candidate is stat-listed, and each
\* scan-eligible one was either scanned to its end or could not be read
InitRank ==
    /\ repo \in RankRepos
    /\ broken = {}
    /\ gitignore = NoGitignore
    /\ FirstRun
    /\ args \in RankArgs
    /\ pc = "scan"
    /\ git_head = ""
    /\ gitignore_patterns = <<>>
    /\ gitignore_neg = <<>>
    /\ files = SortPaths(repo)
    /\ files_truncated = FALSE
    /\ files_for_scan = reorder_files_for_scan(files)
    /\ idx = Len(files_for_scan) + 1
    /\ file_infos = [i \in 1..Len(files_for_scan) |-> [path |-> files_for_scan[i]]]
    /\ symbols = <<>>
    /\ \E D \in SUBSET {p \in repo : ShouldScan(p)} :
         /\ unreadable = {p \in repo : ShouldScan(p)} \ D
         /\ line_counts \in [D -> RankCounts]
    /\ symbols_truncated = FALSE
    /\ total_bytes = SumCounts(line_counts, DOMAIN line_counts)
    /\ file_bytes_truncated = FALSE
    /\ total_bytes_truncated = FALSE
    /\ output = NoOutput
    /\ true_symbols = 0
    /\ cut_short = FALSE
    /\ truncated = FALSE

Filter ==
    [exclude_dirs |-> DEFAULT_EXCLUDED_DIRS, exclude_globs |-> args.exclude,
     include_globs |-> args.include, gitignore_patterns |-> gitignore_patterns,
     gitignore_neg |-> gitignore_neg]

\* ------------------------------------------------------------------------
\* Actions
\* ------------------------------------------------------------------------

\* a loop that looks at the cap only after it has been passed
RECURSIVE CollectFilesLate(_, _, _)
CollectFilesLate(found, acc, max_files) ==
    IF found = <<>> THEN [files |-> acc, truncated |-> FALSE]
    ELSE IF Len(acc) > max_files THEN [files |-> acc, truncated |-> TRUE]
    ELSE CollectFilesLate(Tail(found), Append(acc, Head(found)), max_files)

\* main, lines 562-575: the loop over iter_files; acc is `files`
RECURSIVE CollectFiles(_, _, _)
CollectFiles(found, acc, max_files) ==
    IF found = <<>> THEN [files |-> acc, truncated |-> FALSE]
    ELSE IF Len(acc) >= max_files THEN [files |-> acc, truncated |-> TRUE]
    ELSE CollectFiles(Tail(found), Append(acc, Head(found)), max_files)

\* main, lines 555-585: git head, filters, file discovery up to max_files,
\* scan order
Discover(heads) ==
    /\ pc = "start"
    /\ \E head \in heads :
         LET gi == load_gitignore(gitignore)
             flt == [exclude_dirs |-> DEFAULT_EXCLUDED_DIRS, exclude_globs |-> args.exclude,
                     include_globs |-> args.include, gitignore_patterns |-> gi.patterns,
                     gitignore_neg |-> gi.neg_patterns]
             found == CollectFiles(iter_files(repo, flt), <<>>, args.max_files)
             kept == found.files
         IN  /\ git_head' = head
             /\ gitignore_patterns' = gi.patterns
             /\ gitignore_neg' = gi.neg_patterns
             /\ files' = kept
             /\ files_truncated' = found.truncated
             /\ files_for_scan' = reorder_files_for_scan(kept)
    /\ idx' = 1
    /\ pc' = "scan"
    /\ UNCHANGED << repo, broken, unreadable, gitignore, args, file_infos, symbols, line_counts,
                    symbols_truncated, total_bytes, file_bytes_truncated,
                    total_bytes_truncated, output, true_symbols, cut_short,
                    os_order, twin, truncated >>

\* number of lines of a file that match a pattern of its extension
RECURSIVE MatchingLines(_, _)
MatchingLines(patterns, lines) ==
    IF lines = <<>> THEN 0
    ELSE (IF FirstMatch(patterns, Head(lines)) # 0 THEN 1 ELSE 0)
         + MatchingLines(patterns, Tail(lines))

\* the for loop of scan_file left at a break: with truncated set (lines
\* 409-421), or at the line cap (lines 406-408), where the returned count is
\* one more than the cap
StoppedEarly(r, max_scan_lines) ==
    r.truncated \/ (r.line_count # None /\ r.line_count > max_scan_lines)

\* main, lines 587-636: one iteration of the scan loop; contents is what
\* the file may hold.
ScanStep(contents) ==
    /\ pc = "scan"
    /\ idx <= Len(files_for_scan)
    /\ idx' = idx + 1
    /\ LET rel_path == files_for_scan[idx]
       IN    IF rel_path \in broken
             THEN UNCHANGED << file_infos, symbols, line_counts, symbols_truncated,
                               total_bytes, file_bytes_truncated, total_bytes_truncated,
                               true_symbols, cut_short, truncated >>
             ELSE \E lines \in contents :
                    /\ file_infos' = Append(file_infos, [path |-> rel_path])
                    /\ true_symbols' = Min(MaxSymbols + 1, true_symbols
                          + MatchingLines(SYMBOL_PATTERNS(Lower(Splitext(rel_path))), lines))
                    /\ IF ShouldScan(rel_path) /\ BudgetLeft(total_bytes, args.max_total_bytes)
                       THEN LET r == scan_file(rel_path, lines, rel_path \notin unreadable,
                                               args.max_file_kb,
                                               args.max_file_bytes, args.max_scan_lines,
                                               args.max_total_bytes - total_bytes)
                                total == total_bytes + r.bytes_read
                                acc == AcceptSymbols(symbols, symbols_truncated,
                                                     r.symbols, args.max_symbols)
                            IN  /\ total_bytes' = total
                                /\ truncated' = r.truncated
                                /\ total_bytes_truncated' =
                                      SetFlags(file_bytes_truncated, total_bytes_truncated,
                                               r.truncated, total, args.max_total_bytes).total
                                /\ file_bytes_truncated' =
                                      SetFlags(file_bytes_truncated, total_bytes_truncated,
                                               r.truncated, total, args.max_total_bytes).file
                                /\ line_counts' =
                                      IF r.line_count # None
                                      THEN [p \in DOMAIN line_counts \cup {rel_path} |->
                                               IF p = rel_path THEN r.line_count
                                               ELSE line_counts[p]]
                                      ELSE line_counts
                                /\ symbols' = acc.symbols
                                /\ symbols_truncated' = acc.truncated
                                /\ cut_short' = (cut_short \/ StoppedEarly(r, args.max_scan_lines))
                       ELSE /\ cut_short' = (cut_short \/ ShouldScan(rel_path))
                            /\ UNCHANGED << symbols, line_counts, symbols_truncated,
                                            total_bytes, file_bytes_truncated,
                                            total_bytes_truncated, truncated >>
    /\ UNCHANGED << pc, repo, broken, unreadable, gitignore, args, git_head, gitignore_patterns, gitignore_neg,
                    files, files_truncated, files_for_scan, output, os_order, twin >>

\* main, lines 638-754: tree, top files, symbol order, hotspots, notes, and
\* the report (repo_root and generated_at left out)
Report ==
    /\ pc = "scan"
    /\ idx > Len(files_for_scan)
    /\ LET t == build_tree(repo, Filter, args.max_tree_depth, args.max_tree_chars)
           top_files == TopFiles(file_infos, line_counts, args.max_top_files)
           sorted == SortSymbols(symbols)
           hotspots == Hotspots(line_counts, args.max_hotspots)
           notes == Notes(t.truncated, symbols_truncated, files_truncated,
                          file_bytes_truncated, total_bytes_truncated,
                          Len(top_files), args.max_top_files,
                          Len(hotspots), args.max_hotspots, gitignore_patterns, git_head)
       IN  /\ symbols' = sorted
           /\ output' = [git_head |-> git_head, tree |-> t.tree, top_files |-> top_files,
                         symbols |-> Take(sorted, args.max_symbols), hotspots |-> hotspots,
                         notes |-> notes]
    /\ pc' = "done"
    /\ UNCHANGED << repo, broken, unreadable, gitignore, args, git_head, gitignore_patterns, gitignore_neg,
                    files, files_truncated, files_for_scan, idx, file_infos, line_counts,
                    symbols_truncated, total_bytes, file_bytes_truncated,
                    total_bytes_truncated, true_symbols, cut_short, os_order, twin,
                    truncated >>

Next ==
    \/ Discover(GitHeads)
    \/ ScanStep(ScanContents)
    \/ Report

Spec == Init /\ [][Next]_vars

\* runs without git and with one-line files
NextFilter ==
    \/ Discover({""})
    \/ ScanStep(OneClass)
    \/ Report

SpecFilter == InitFilter /\ [][NextFilter]_vars

SpecTree == InitTree /\ [][NextFilter]_vars

NextKinds ==
    \/ Discover({""})
    \/ ScanStep(KindContents)
    \/ Report

SpecKinds == InitKinds /\ [][NextKinds]_vars

NextLong ==
    \/ Discover({""})
    \/ ScanStep({LongFile(files_for_scan[idx])})
    \/ Report

SpecLong == InitLong /\ [][NextLong]_vars

NextPool ==
    \/ Discover({""})
    \/ ScanStep({PoolFile(files_for_scan[idx])})
    \/ Report

SpecPool == InitPool /\ [][NextPool]_vars

NextRank == Report

SpecRank == InitRank /\ [][NextRank]_vars

\* a second invocation of main on the unchanged tree, which the OS may list
\* in another order; the report of the first run is kept for comparison
RunAgain ==
    /\ pc = "done"
    /\ twin = NoTwin
    /\ twin' = [output |-> output, os_order |-> os_order]
    /\ os_order' \in AllOrders(repo \cup DirsOf(repo))
    /\ pc' = "start"
    /\ git_head' = ""
    /\ gitignore_patterns' = <<>>
    /\ gitignore_neg' = <<>>
    /\ files' = <<>>
    /\ files_truncated' = FALSE
    /\ files_for_scan' = <<>>
    /\ idx' = 1
    /\ file_infos' = <<>>
    /\ symbols' = <<>>
    /\ line_counts' = EmptyMap
    /\ symbols_truncated' = FALSE
    /\ total_bytes' = 0
    /\ file_bytes_truncated' = FALSE
    /\ total_bytes_truncated' = FALSE
    /\ output' = NoOutput
    /\ true_symbols' = 0
    /\ cut_short' = FALSE
    /\ truncated' = FALSE
    /\ UNCHANGED << repo, broken, unreadable, gitignore, args >>

NextTwin ==
    \/ Discover({""})
    \/ ScanStep(OneClass)
    \/ Report
    \/ RunAgain

SpecTwin == InitTwin /\ [][NextTwin]_vars

\* ------------------------------------------------------------------------
\* Properties of the scan runs (Spec)
\* ------------------------------------------------------------------------

HasNote(n) == \E i \in 1..Len(output.notes) : output.notes[i] = n

\* the scan loop stands before a candidate
AtFile == pc = "scan" /\ idx <= Len(files_for_scan)

\* C1: the symbols list of the emitted report has at most max_symbols
\* entries, for every tree and every setting of the caps.
SymbolCap == pc = "done" => Len(output.symbols) <= args.max_symbols

\* a report that is full although the tree holds more symbols than the cap
SymbolCapWitness ==
    /\ pc = "done"
    /\ args.max_symbols > 0
    /\ true_symbols > args.max_symbols
    /\ Len(output.symbols) = args.max_symbols

\* C2: whenever the number of pattern-matching lines of the candidates
\* exceeds max_symbols, the notes of the report contain "symbols truncated".
SymbolsTruncationReported ==
    (pc = "done" /\ true_symbols > args.max_symbols) => HasNote("symbols truncated")

\* C3: the bytes read over the whole run are at most
\* max_total_bytes + max_file_bytes.
ByteOverrunBound == total_bytes <= args.max_total_bytes + args.max_file_bytes

\* C4: once the bytes consumed have reached the total-byte cap, a further
\* candidate adds no bytes, gets no line count and contributes no symbols,
\* and is stat-listed all the same (when its stat succeeds).
SkippedStep ==
    (AtFile /\ total_bytes >= args.max_total_bytes)
    => /\ total_bytes' = total_bytes
       /\ line_counts' = line_counts
       /\ symbols' = symbols
       /\ files_for_scan[idx] \notin broken
            => file_infos' = Append(file_infos, [path |-> files_for_scan[idx]])

SkippedAfterExhaustion == [][SkippedStep]_vars

\* a scannable, readable candidate that was stat-listed and left unscanned
\* after bytes had been consumed up to the cap
SkippedWitness ==
    /\ pc = "done"
    /\ args.max_file_kb > 0
    /\ total_bytes > 0
    /\ total_bytes >= args.max_total_bytes
    /\ \E i \in 1..Len(file_infos) :
         /\ ShouldScan(file_infos[i].path)
         /\ file_infos[i].path \notin unreadable
         /\ file_infos[i].path \notin DOMAIN line_counts

\* the position of files_for_scan[i] among the files of its group
RankInGroup(i) ==
    Cardinality({n \in 1..i : group_key(files_for_scan[n]) = group_key(files_for_scan[i])})

\* C5: in the scan order the k-th file of a group comes before the
\* (k+1)-th file of every group.
RoundRobinOrder ==
    (pc = "scan" /\ idx = 1) =>
      \A i, j \in 1..Len(files_for_scan) :
         RankInGroup(j) = RankInGroup(i) + 1 => i < j

\* two groups, and the one that sorts first has two files
RoundRobinWitness ==
    /\ pc = "scan"
    /\ \E i, j, k \in 1..Len(files_for_scan) :
         /\ i < j /\ j < k
         /\ group_key(files_for_scan[i]) = group_key(files_for_scan[k])
         /\ group_key(files_for_scan[i]) # group_key(files_for_scan[j])

GroupsOf(paths) == {group_key(p) : p \in paths}

\* the candidates the scan loop has reached so far
Reached == {files_for_scan[i] : i \in 1..(idx - 1)}

\* a positive cap has run out
Exhausted ==
    \/ args.max_symbols > 0 /\ symbols_truncated
    \/ args.max_total_bytes > 0 /\ total_bytes >= args.max_total_bytes

\* C6 as stated: the files of a single group never exhaust the symbol cap
\* or the byte cap before a file of every other group with scan-eligible
\* files has been scanned.
NoGroupExhaustsAlone ==
    (pc = "scan" /\ idx > 1 /\ Exhausted
        /\ Cardinality(GroupsOf({p \in Reached : ShouldScan(p)})) = 1)
    => GroupsOf({files_for_scan[i] : i \in {n \in 1..Len(files_for_scan) :
                                              ShouldScan(files_for_scan[n])}})
         \subseteq GroupsOf({p \in Reached : ShouldScan(p)})

\* C6 as amended: a cap can run out before some group is reached only within
\* the first round: as long as a group has had no file reached, no group has
\* had more than one.
FirstRoundFairness ==
    (pc = "scan" /\ Exhausted /\ GroupsOf(Reached) # GroupsOf({files_for_scan[i] : i \in 1..Len(files_for_scan)}))
    => \A g \in GroupsOf(Reached) : Cardinality({p \in Reached : group_key(p) = g}) <= 1

\* a cap ran out on the first file while another group waits
FirstRoundWitness ==
    /\ pc = "scan"
    /\ idx = 2
    /\ Exhausted
    /\ GroupsOf(Reached) # GroupsOf({files_for_scan[i] : i \in 1..Len(files_for_scan)})

\* C19: a read error while scanning a file leaves the ledger as it was:
\* total bytes, the symbol list, the line counts and every truncation flag
\* are unchanged, the file stays stat-listed, and the loop goes on to the
\* next file.
ReadErrorStep ==
    (AtFile /\ files_for_scan[idx] \in unreadable /\ files_for_scan[idx] \notin broken)
    => /\ total_bytes' = total_bytes
       /\ symbols' = symbols
       /\ line_counts' = line_counts
       /\ symbols_truncated' = symbols_truncated
       /\ file_bytes_truncated' = file_bytes_truncated
       /\ total_bytes_truncated' = total_bytes_truncated
       /\ file_infos' = Append(file_infos, [path |-> files_for_scan[idx]])
       /\ pc' = "scan"
       /\ idx' = idx + 1

ReadErrorHarmless == [][ReadErrorStep]_vars

\* a report of a run in which lib/a.py could not be read while the budget
\* lasted, and src/c.py was scanned after it
ReadErrorWitness ==
    /\ pc = "done"
    /\ P_lib_a_py \in unreadable
    /\ args.max_file_kb > 0
    /\ P_lib_a_py \in {file_infos[i].path : i \in 1..Len(file_infos)}
    /\ P_lib_a_py \notin DOMAIN line_counts
    /\ P_src_c_py \in DOMAIN line_counts
    /\ \E i \in 1..Len(output.top_files) : output.top_files[i].path = P_lib_a_py

\* C20: after a scan, "total bytes truncated" is set when the scan reported
\* truncated and the bytes have reached the total-byte cap, otherwise
\* "file bytes truncated" is set when the scan reported truncated, and a
\* scan that did not report truncated sets neither flag.
FlagRuleStep ==
    (/\ AtFile
     /\ files_for_scan[idx] \notin broken
     /\ ShouldScan(files_for_scan[idx])
     /\ total_bytes < args.max_total_bytes)
    =>
      /\ total_bytes_truncated' =
            (total_bytes_truncated \/ (truncated' /\ total_bytes' >= args.max_total_bytes))
      /\ file_bytes_truncated' =
            (file_bytes_truncated \/ (truncated' /\ ~(total_bytes' >= args.max_total_bytes)))

FlagRuleOnly == [][FlagRuleStep]_vars

\* C22: the line count stored for a file never exceeds max_scan_lines, also
\* for a file that has more lines than that.
LineCountWithinCap ==
    \A p \in DOMAIN line_counts : line_counts[p] <= args.max_scan_lines

TruncationNotes ==
    {"tree truncated", "symbols truncated", "files truncated", "file bytes truncated",
     "total bytes truncated", "top_files truncated", "hotspots truncated"}

\* C11: whenever a scan-eligible candidate was skipped because the byte
\* budget was exhausted, or a scan stopped before the end of its file at the
\* line cap or at a byte cap, the notes of the report contain at least one
\* truncation note.
BudgetExhaustionReported ==
    (pc = "done" /\ cut_short) => \E n \in TruncationNotes : HasNote(n)

\* ------------------------------------------------------------------------
\* Properties of the filter runs (SpecFilter)
\* ------------------------------------------------------------------------

Segments(p) == {Split(p)[i] : i \in 1..Len(Split(p))}

HasExcludedSegment(p) == Segments(p) \cap DEFAULT_EXCLUDED_DIRS # {}

\* the files and directories of the tree on disk
Entries == repo \cup DirsOf(repo)

\* what the walk of build_tree lists
TreeEntries == TreeWalk(repo, Filter, args.max_tree_depth, <<>>, 0)

\* the paths the report names outside the tree
ReportedPaths ==
    {output.top_files[i].path : i \in 1..Len(output.top_files)}
    \cup {output.symbols[i].path : i \in 1..Len(output.symbols)}
    \cup {output.hotspots[i].path : i \in 1..Len(output.hotspots)}

\* C7: a path with a segment equal to a default-excluded directory name is
\* excluded by should_exclude whatever the globs and the gitignore patterns
\* are, and no such path is listed, scanned, or named in tree, top_files,
\* symbols or hotspots.
DefaultDirsExcluded ==
    /\ \A p \in Entries : HasExcludedSegment(p) => Excluded(Filter, p, IsDir(repo, p))
    /\ \A i \in 1..Len(files) : ~HasExcludedSegment(files[i])
    /\ \A p \in DOMAIN line_counts : ~HasExcludedSegment(p)
    /\ pc = "done" =>
         /\ \A i \in 1..Len(TreeEntries) : ~HasExcludedSegment(TreeEntries[i].rel)
         /\ \A p \in ReportedPaths : ~HasExcludedSegment(p)

\* a report over a tree with a file under node_modules that an include glob
\* and a gitignore negation both name
DefaultDirsWitness ==
    /\ pc = "done"
    /\ \E p \in repo :
         /\ HasExcludedSegment(p)
         /\ AnyMatch(args.include, p, FALSE)
         /\ AnyMatch(gitignore_neg, p, FALSE)
    /\ output.symbols # <<>>

ExcludedBySteps12(p) ==
    HasExcludedSegment(p) \/ AnyMatch(args.exclude, p, IsDir(repo, p))

\* the proper ancestors of a path and the path itself
Lineage(p) == {JoinPath(SubSeq(Split(p), 1, k)) : k \in 1..Len(Split(p))}

\* C8: a path that matches a gitignore pattern is excluded unless it also
\* matches a negation pattern, and then it is not excluded; a negation
\* pattern never re-includes a path excluded by the directory denylist or
\* by an exclude glob; the listed files are those that are not excluded and
\* lie in no excluded directory.
GitignoreNegation ==
    pc # "start" =>
      /\ \A p \in Entries :
           LET d == IsDir(repo, p)
               gm == AnyMatch(gitignore_patterns, p, d)
               nm == AnyMatch(gitignore_neg, p, d)
           IN  /\ ExcludedBySteps12(p) => Excluded(Filter, p, d)
               /\ (~ExcludedBySteps12(p) /\ gm /\ ~nm) => Excluded(Filter, p, d)
               /\ (~ExcludedBySteps12(p) /\ gm /\ nm) => ~Excluded(Filter, p, d)
      /\ \A i \in 1..Len(files) :
           \A q \in Lineage(files[i]) : ~Excluded(Filter, q, IsDir(repo, q))
      /\ ~files_truncated =>
           \A p \in repo :
              (\A q \in Lineage(p) : ~Excluded(Filter, q, IsDir(repo, q)))
              => \E i \in 1..Len(files) : files[i] = p

\* `*.log` with `!keep.log`: keep.log is listed and other.log is not
GitignoreNegationWitness ==
    /\ pc = "done"
    /\ gitignore_patterns = <<G_log>>
    /\ gitignore_neg = <<P_keep_log>>
    /\ P_other_log \in repo
    /\ \E i \in 1..Len(files) : files[i] = P_keep_log
    /\ \A i \in 1..Len(files) : files[i] # P_other_log

\* C9: when the include globs are non-empty and none of them matches a
\* path, should_exclude returns true for it, whatever the gitignore and
\* negation patterns are.
AllowListExcludes ==
    pc # "start" =>
      \A p \in Entries :
         (args.include # <<>> /\ ~AnyMatch(args.include, p, IsDir(repo, p)))
         => Excluded(Filter, p, IsDir(repo, p))

\* C26: when the file cap does not bind, a file is a candidate if and only
\* if should_exclude is false for the file and for each of its ancestor
\* directories; so with non-empty include globs no file is a candidate that
\* has an ancestor directory matching no include glob, even when the file
\* itself matches one.
CandidatesByLineage ==
    (pc # "start" /\ ~files_truncated) =>
      LET Candidate(p) == \E i \in 1..Len(files) : files[i] = p
      IN  /\ \A p \in repo :
               Candidate(p) <=> \A q \in Lineage(p) : ~Excluded(Filter, q, IsDir(repo, q))
          /\ args.include # <<>> =>
               \A p \in repo :
                  (\E q \in Lineage(p) \ {p} : ~AnyMatch(args.include, q, TRUE))
                  => ~Candidate(p)

\* the non-excluded files in enumeration order
Enumerated == iter_files(repo, Filter)

\* C12: file discovery keeps the first max_files non-excluded files in
\* enumeration order and no more, only these reach the report, and the note
\* "files truncated" is present exactly when a further non-excluded file was
\* left out by the cap.
FilesCapRespected ==
    pc # "start" =>
      /\ Len(files) <= args.max_files
      /\ Len(files) <= Len(Enumerated)
      /\ \A i \in 1..Len(files) : files[i] = Enumerated[i]
      /\ Len(files) < args.max_files => Len(files) = Len(Enumerated)
      /\ files_truncated <=> Len(Enumerated) > args.max_files
      /\ pc = "done" =>
           /\ HasNote("files truncated") <=> Len(Enumerated) > args.max_files
           /\ ReportedPaths \subseteq {files[i] : i \in 1..Len(files)}

\* max_files = 1 with two eligible files: one candidate, and the note
FilesCapWitness ==
    /\ pc = "done"
    /\ args.max_files = 1
    /\ Len(Enumerated) = 2
    /\ Len(files) = 1
    /\ Len(output.top_files) = 1
    /\ HasNote("files truncated")

\* ------------------------------------------------------------------------
\* Properties of the repeated runs (SpecTwin)
\* ------------------------------------------------------------------------

\* C13: two runs on the same tree with the same contents, caps and globs
\* (and the same git head result) emit identical tree, top_files, symbols,
\* hotspots and notes, in whatever order the OS lists the directories.
TwinReportsAgree ==
    (pc = "done" /\ twin # NoTwin) => output = twin.output

\* a second report over a tree that the OS listed in another order, with
\* two entries in one directory
TwinWitness ==
    /\ pc = "done"
    /\ twin # NoTwin
    /\ twin.os_order # os_order
    /\ Len(output.top_files) >= 2

\* ------------------------------------------------------------------------
\* Properties of the declaration runs (SpecKinds)
\* ------------------------------------------------------------------------

\* C14: a Swift declaration with the keyword `actor` is emitted as a symbol
\* of kind class, an interface as kind typealias, and every emitted kind is
\* in the closed kind set.
ActorIsClass ==
    \A i \in 1..Len(symbols) :
       /\ symbols[i].kind \in KINDS
       /\ (symbols[i].path = P_a_swift /\ symbols[i].name = "actor") => symbols[i].kind = "class"
       /\ (symbols[i].path = P_a_ts /\ symbols[i].name = "interface")
            => symbols[i].kind = "typealias"

\* ------------------------------------------------------------------------
\* Properties of the ranking runs (SpecRank)
\* ------------------------------------------------------------------------

IsReadme(path) == StartsWith(Lower(Basename(path)), <<"r", "e", "a", "d", "m", "e">>)

IsConfig(path) == Lower(Basename(path)) \in IMPORTANT_FILENAMES

\* C15: the reason large replaces only other, entrypoint and core: a file
\* that is a readme or a recognized important file is never listed in
\* top_files with the reason large, however many lines it has.
LargeKeepsReadmeConfig ==
    \A i \in 1..Len(output.top_files) :
       LET e == output.top_files[i]
       IN  (IsReadme(e.path) \/ IsConfig(e.path)) => e.reason # "large"

ScoreOf(path) == score_file(path, line_counts).score

\* path p ranks before path q: higher score, or equal score and lower path
RanksBefore(p, q) ==
    ScoreOf(p) > ScoreOf(q) \/ (ScoreOf(p) = ScoreOf(q) /\ StrLess(p, q))

StatListed == {file_infos[i].path : i \in 1..Len(file_infos)}

TopPaths == {output.top_files[i].path : i \in 1..Len(output.top_files)}

\* C16: top_files lists the stat-listed candidates by score descending and,
\* among equal scores, by path ascending; it has at most max_top_files
\* entries, the best ones; and the note "top_files truncated" is emitted
\* exactly when the length of the list equals the cap.
TopFilesOrdered ==
    pc = "done" =>
      /\ Len(output.top_files) <= args.max_top_files
      /\ Len(output.top_files) = Min(Cardinality(StatListed), args.max_top_files)
      /\ TopPaths \subseteq StatListed
      /\ \A i, j \in 1..Len(output.top_files) :
           i < j => RanksBefore(output.top_files[i].path, output.top_files[j].path)
      /\ \A p \in TopPaths : \A q \in StatListed \ TopPaths : RanksBefore(p, q)
      /\ HasNote("top_files truncated") <=> Len(output.top_files) = args.max_top_files

\* a list as long as the cap with no candidate dropped, two entries of equal
\* score, and the note
TopFilesWitness ==
    /\ pc = "done"
    /\ Len(output.top_files) = args.max_top_files
    /\ TopPaths = StatListed
    /\ \E i \in 1..(Len(output.top_files) - 1) :
         ScoreOf(output.top_files[i].path) = ScoreOf(output.top_files[i + 1].path)
    /\ HasNote("top_files truncated")

\* C17: every stat-listed file whose basename starts with "readme" is placed
\* in top_files before every file whose basename neither starts with
\* "readme" nor is a recognized important filename, for all paths and line
\* counts.
ReadmeOutranks ==
    pc = "done" =>
      \A i \in 1..Len(output.top_files) :
         LET p == output.top_files[i].path
         IN  (~IsReadme(p) /\ ~IsConfig(p)) =>
               \A r \in {q \in StatListed : IsReadme(q)} :
                  \E j \in 1..(i - 1) : output.top_files[j].path = r

\* a readme listed before a core entrypoint with the most lines
ReadmeOutranksWitness ==
    /\ pc = "done"
    /\ Len(output.top_files) >= 2
    /\ IsReadme(output.top_files[1].path)
    /\ \E i \in 2..Len(output.top_files) :
         LET p == output.top_files[i].path
         IN  /\ Lower(Basename(p)) \in ENTRYPOINT_FILENAMES
             /\ IsCorePath(p)
             /\ p \in DOMAIN line_counts
             /\ line_counts[p] = RankLines

\* the files of line_counts with at least one signal
Signaled == {p \in DOMAIN line_counts : line_counts[p] >= 400 \/ IsCorePath(p)}

HotPaths == {output.hotspots[i].path : i \in 1..Len(output.hotspots)}

\* path p comes before path q: more lines, or as many lines and lower path
HotterThan(p, q) ==
    line_counts[p] > line_counts[q] \/ (line_counts[p] = line_counts[q] /\ StrLess(p, q))

\* C18: hotspots is the first max_hotspots entries, by line count descending
\* then path ascending, of the files of line_counts that have a signal (large
\* from 400 lines on, core by the path, in that order); a file without a
\* signal is never listed and uses up no slot.
HotspotsRanked ==
    pc = "done" =>
      /\ Len(output.hotspots) = Min(Cardinality(Signaled), args.max_hotspots)
      /\ HotPaths \subseteq Signaled
      /\ \A i \in 1..Len(output.hotspots) :
           LET e == output.hotspots[i]
           IN  e.signals = (IF line_counts[e.path] >= 400 THEN <<"large">> ELSE <<>>)
                           \o (IF IsCorePath(e.path) THEN <<"core">> ELSE <<>>)
      /\ \A i, j \in 1..Len(output.hotspots) :
           i < j => HotterThan(output.hotspots[i].path, output.hotspots[j].path)
      /\ \A p \in HotPaths : \A q \in Signaled \ HotPaths : HotterThan(p, q)

\* a cap of one, and the one hotspot listed has fewer lines than a file
\* without a signal
HotspotsWitness ==
    /\ pc = "done"
    /\ args.max_hotspots = 1
    /\ Len(output.hotspots) = 1
    /\ \E q \in DOMAIN line_counts \ Signaled :
         line_counts[q] > line_counts[output.hotspots[1].path]

\* ------------------------------------------------------------------------
\* Properties of the long-file runs (SpecLong)
\* ------------------------------------------------------------------------

\* the lines and bytes that the loop of scan_file counts for a file when no
\* symbol is collected: (line count, bytes read) from (lc, br) on
RECURSIVE Counted(_, _, _, _, _, _)
Counted(lines, lc, br, max_file_bytes, max_scan_lines, remaining) ==
    IF lines = <<>> THEN <<lc, br>>
    ELSE IF lc + 1 > max_scan_lines \/ remaining <= 0 THEN <<lc + 1, br>>
    ELSE IF br + Head(lines).len > max_file_bytes \/ br + Head(lines).len > remaining
    THEN <<lc + 1, br + Head(lines).len>>
    ELSE Counted(Tail(lines), lc + 1, br + Head(lines).len,
                 max_file_bytes, max_scan_lines, remaining)

\* the one file of the run has been scanned
LongScanned == pc = "scan" /\ idx = 2 /\ files_for_scan[1] \in DOMAIN line_counts

\* C23: scan_file returns at most MAX_SYMBOLS_PER_FILE symbols for a file,
\* at most one per line, and the line count and the bytes read that it
\* returns are those of the same file counted without regard to symbols:
\* the lines after the per-file symbol cap is reached are still counted.
PerFileSymbolCap ==
    LongScanned =>
      LET rel_path == files_for_scan[1]
          counted == Counted(LongFile(rel_path), 0, 0, args.max_file_bytes,
                             args.max_scan_lines, args.max_total_bytes)
      IN  /\ Len(symbols) <= MAX_SYMBOLS_PER_FILE
          /\ \A i, j \in 1..Len(symbols) : i < j => symbols[i].line < symbols[j].line
          /\ line_counts[rel_path] = counted[1]
          /\ total_bytes = counted[2]

\* the file has more declarations than the cap, the cap was reached, and
\* lines after it were counted
PerFileSymbolCapWitness ==
    /\ LongScanned
    /\ Len(symbols) = MAX_SYMBOLS_PER_FILE
    /\ MatchingLines(PY_PATTERNS, LongFile(files_for_scan[1])) > MAX_SYMBOLS_PER_FILE
    /\ line_counts[files_for_scan[1]] > symbols[MAX_SYMBOLS_PER_FILE].line + 1

\* ------------------------------------------------------------------------
\* Properties of the symbol-pool runs (SpecPool)
\* ------------------------------------------------------------------------

\* the symbols that scan_file returns for the file at idx, <<>> when the
\* file is not scanned
Batch ==
    LET rel_path == files_for_scan[idx]
    IN  IF ShouldScan(rel_path) /\ BudgetLeft(total_bytes, args.max_total_bytes)
        THEN scan_file(rel_path, PoolFile(rel_path), rel_path \notin unreadable,
                       args.max_file_kb, args.max_file_bytes, args.max_scan_lines,
                       args.max_total_bytes - total_bytes).symbols
        ELSE <<>>

NoEvictionStep ==
    AtFile =>
      \E k \in 0..Len(Batch) :
         /\ symbols' = symbols \o Take(Batch, k)
         /\ k < Len(Batch) => symbols_truncated'
         /\ symbols_truncated => k = 0 /\ symbols_truncated'

\* C24: every step of the scan loop appends a prefix of the file's symbol
\* batch to the collected list and removes nothing, a batch is cut short
\* only with the symbols-truncated flag set, and once the flag is set no
\* symbol of a later file is accepted; so the collected list is always a
\* prefix of the concatenation of the batches in scan order.
NoEviction == [][NoEvictionStep]_vars

\* the collected list ends inside the batch of the second or a later file,
\* and a file with declarations is still to come
NoEvictionWitness ==
    /\ AtFile
    /\ symbols_truncated
    /\ Len(symbols) > 1
    /\ symbols[1].path # symbols[Len(symbols)].path
    /\ symbols[Len(symbols)].line = 1
    /\ MatchingLines(PY_PATTERNS, PoolFile(symbols[Len(symbols)].path)) > 1
    /\ Batch # <<>>

\* a sorts before b by (extension priority, name priority, path)
KeyBefore(a, b) ==
    \/ ext_priority(a) < ext_priority(b)
    \/ ext_priority(a) = ext_priority(b) /\ name_priority(a) < name_priority(b)
    \/ ext_priority(a) = ext_priority(b) /\ name_priority(a) = name_priority(b)
         /\ StrLess(a, b)

TreeCutLineSafe ==
    (pc = "done" /\ HasNote("tree truncated"))
    => \E k \in 0..Len(TreeEntries) :
          output.tree = JoinLines(Take(TreeLines(TreeEntries), k))

\* C21: when the full rendered tree is longer than max_tree_chars, the tree
\* of the report is the longest prefix of whole lines of the full tree that
\* is at most max_tree_chars long, and truncation is reported; when the full
\* tree fits, it is reported unchanged and no truncation is reported.
TreeLongestWholeLines ==
    pc = "done" =>
      LET lines == TreeLines(TreeEntries)
          full == JoinLines(lines)
          Fits(k) == Len(JoinLines(Take(lines, k))) <= args.max_tree_chars
      IN  IF Len(full) <= args.max_tree_chars
          THEN output.tree = full /\ ~HasNote("tree truncated")
          ELSE /\ HasNote("tree truncated")
               /\ \E k \in 0..Len(lines) :
                    /\ output.tree = JoinLines(Take(lines, k))
                    /\ Fits(k)
                    /\ \A j \in (k + 1)..Len(lines) : ~Fits(j)

====
